---- MODULE Spec2Model ----
(***************************************************************************)
(* Backtest simulation core of sentiment_ai: Portfolio                     *)
(* (core/backtest/portfolio.py), EarningsSentimentStrategy                 *)
(* (core/strategy/sentiment.py) and BacktestEngine.run                     *)
(* (core/backtest/engine.py).                                              *)
(*                                                                         *)
(* Numbers.  The program computes on Python floats.  Every amount of       *)
(* money and every share quantity is modelled as an exact rational         *)
(* <<n, d>> in lowest terms with d > 0, so that quantity = size / price    *)
(* and cost = quantity * price are computed, not assumed.                  *)
(*                                                                         *)
(* Dates.  A sentiment row is indexed by an ISO date string of one year,  *)
(* modelled as the pair <<month, day>> (string order = lexicographic order *)
(* of the pair); a datetime.date is modelled as its day of the year.       *)
(***************************************************************************)
EXTENDS Integers, Sequences, FiniteSets, TLC

VARIABLES portfolio, call, strategy, price_data, index_name, sentiment_data,
          signals, pc, row, results

vars == <<portfolio, call, strategy, price_data, index_name, sentiment_data,
          signals, pc, row, results>>

(***************************************************************************)
(* Bounds                                                                  *)
(***************************************************************************)
\* calls made by a client of the Portfolio class in one behaviour
MaxCalls == 3
\* rows of the sentiment input
MaxRows == 3
\* rows of the price series
MaxPriceRows == 3
\* values of a price or return series given to core/metrics
MaxLen == 3
\* coroutines submitted to one gather
MaxTasks == 3

(***************************************************************************)
(* Exact rational arithmetic                                               *)
(***************************************************************************)
Abs(n) == IF n < 0 THEN -n ELSE n

RECURSIVE GCD(_, _)
GCD(a, b) == IF b = 0 THEN a ELSE GCD(b, a % b)

Rat(n, d) ==
    LET s == IF d < 0 THEN -1 ELSE 1
        g == GCD(Abs(n), Abs(d))
    IN  <<(s * n) \div g, (s * d) \div g>>

R(n) == <<n, 1>>
Zero == R(0)

\* sums over the least common denominator keep the integers small
RAdd(a, b) ==
    LET g == GCD(a[2], b[2])
    IN  Rat(a[1] * (b[2] \div g) + b[1] * (a[2] \div g), (a[2] \div g) * b[2])
RNeg(a) == <<-a[1], a[2]>>
RSub(a, b) == RAdd(a, RNeg(b))
RMul(a, b) == Rat(a[1] * b[1], a[2] * b[2])
\* b # 0
RDiv(a, b) == Rat(a[1] * b[2], a[2] * b[1])
RLt(a, b) == a[1] * b[2] < b[1] * a[2]
RLe(a, b) == a[1] * b[2] <= b[1] * a[2]
RAbs(a) == <<Abs(a[1]), a[2]>>
RMin(a, b) == IF RLt(b, a) THEN b ELSE a

(***************************************************************************)
(* Python values                                                           *)
(***************************************************************************)
\* an Optional[...] argument is the empty set (None) or a singleton
None == {}
Some(x) == {x}
\* a dict is its set of <<key, value>> items
EmptyDict == {}

(***************************************************************************)
(* class Portfolio                                                         *)
(***************************************************************************)
\* Portfolio.__init__
Portfolio(initial_capital, unlimited_capital) ==
    [initial_capital   |-> initial_capital,
     current_capital   |-> initial_capital,
     unlimited_capital |-> unlimited_capital,
     positions         |-> <<>>,
     trades            |-> <<>>,
     portfolio_values  |-> <<>>]

\* metadata or {}
MetadataOrEmpty(metadata) ==
    IF metadata = None THEN EmptyDict ELSE CHOOSE d \in metadata : TRUE

\* Money is exact in this model but quantity * price is a float product.
\* When the engine derives the quantity as amount / price, the product
\* (amount / price) * price is, in IEEE 754 double arithmetic, one unit in
\* the last place above amount for these <<amount, price>> of the model's
\* amounts and closes, and equal to amount for the others.
RoundedUpProducts ==
    {<<R(50), R(88)>>, <<R(100), R(88)>>, <<R(250), R(110)>>,
     <<R(500), R(110)>>, <<R(1000), R(110)>>}

\* the float quantity * price is greater than its exact value
RoundsAbove(quantity, price) ==
    /\ quantity[2] # 1
    /\ <<RMul(quantity, price), price>> \in RoundedUpProducts

\* cost > capital for the float cost: the excess of a rounded-up product
\* shows only where the exact values are equal
CostExceeds(quantity, price, capital) ==
    LET cost == RMul(quantity, price)
    IN  RLt(capital, cost) \/ (cost = capital /\ RoundsAbove(quantity, price))

\* variant: the cost is compared with the starting capital
InsufficientCapital_Initial(self, quantity, price) ==
    ~self.unlimited_capital /\ CostExceeds(quantity, price, self.initial_capital)

\* the guard of enter_position: the order does not fit the cash
InsufficientCapital(self, quantity, price) ==
    ~self.unlimited_capital /\ CostExceeds(quantity, price, self.current_capital)

\* the trade record of an entry
EntryTrade(ticker, quantity, price, date, metadata) ==
    [ticker      |-> ticker,
     quantity    |-> quantity,
     entry_price |-> price,
     date        |-> date,
     type        |-> "entry",
     metadata    |-> MetadataOrEmpty(metadata)]

\* variant: the holding is overwritten, not accumulated
AddToPosition_Overwrite(positions, ticker, quantity) ==
    [t \in (DOMAIN positions) \cup {ticker} |->
        IF t = ticker THEN quantity ELSE positions[t]]

\* positions after "if ticker not in positions: positions[ticker] = 0;
\* positions[ticker] += quantity"
AddToPosition(positions, ticker, quantity) ==
    [t \in (DOMAIN positions) \cup {ticker} |->
        IF t = ticker
        THEN RAdd(IF ticker \in DOMAIN positions THEN positions[ticker] ELSE Zero,
                  quantity)
        ELSE positions[t]]

\* variant: an entry costs nothing
CapitalAfterEntry_NoDebit(self, cost) == self.current_capital

\* variant: cash is debited in unlimited mode too
CapitalAfterEntry_Always(self, cost) == RSub(self.current_capital, cost)

\* current_capital after an accepted entry
CapitalAfterEntry(self, cost) ==
    IF ~self.unlimited_capital
    THEN RSub(self.current_capital, cost)
    ELSE self.current_capital

\* variant: the trade is logged before the capital check
enter_position_LogFirst(self, ticker, quantity, price, date, metadata) ==
    LET cost == RMul(quantity, price)
        logged == [self EXCEPT
                     !.trades = Append(@, EntryTrade(ticker, quantity, price,
                                                     date, metadata))]
    IN  IF InsufficientCapital(self, quantity, price)
        THEN [self |-> logged, ret |-> FALSE]
        ELSE [self |->
                [logged EXCEPT
                   !.positions = AddToPosition(@, ticker, quantity),
                   !.current_capital = CapitalAfterEntry(self, cost)],
              ret |-> TRUE]

\* Portfolio.enter_position: the portfolio after the call, and its result
enter_position(self, ticker, quantity, price, date, metadata) ==
    LET cost == RMul(quantity, price)
    IN  IF InsufficientCapital(self, quantity, price)
        THEN [self |-> self, ret |-> FALSE]
        ELSE [self |->
                [self EXCEPT
                   !.trades = Append(@, EntryTrade(ticker, quantity, price,
                                                   date, metadata)),
                   !.positions = AddToPosition(@, ticker, quantity),
                   !.current_capital = CapitalAfterEntry(self, cost)],
              ret |-> TRUE]

\* variant: the whole holding cannot be sold
InsufficientPosition_Strict(self, ticker, quantity) ==
    \/ ticker \notin DOMAIN self.positions
    \/ RLe(self.positions[ticker], quantity)

\* the guard of exit_position: the ticker is not held in that quantity
InsufficientPosition(self, ticker, quantity) ==
    \/ ticker \notin DOMAIN self.positions
    \/ RLt(self.positions[ticker], quantity)

\* the trade record of an exit
ExitTrade(ticker, quantity, price, date, metadata) ==
    [ticker     |-> ticker,
     quantity   |-> RNeg(quantity),
     exit_price |-> price,
     date       |-> date,
     type       |-> "exit",
     metadata   |-> MetadataOrEmpty(metadata)]

\* positions after "positions[ticker] -= quantity; if positions[ticker] == 0:
\* del positions[ticker]"
RemoveFromPosition(positions, ticker, quantity) ==
    LET left == RSub(positions[ticker], quantity)
        keep == IF left = Zero THEN (DOMAIN positions) \ {ticker}
                ELSE DOMAIN positions
    IN  [t \in keep |-> IF t = ticker THEN left ELSE positions[t]]

\* variant: the proceeds of an exit are not credited
CapitalAfterExit_NoCredit(self, proceeds) == self.current_capital

\* current_capital after an accepted exit
CapitalAfterExit(self, proceeds) ==
    IF ~self.unlimited_capital
    THEN RAdd(self.current_capital, proceeds)
    ELSE self.current_capital

\* Portfolio.exit_position: the portfolio after the call, and its result
exit_position(self, ticker, quantity, price, date, metadata) ==
    IF InsufficientPosition(self, ticker, quantity)
    THEN [self |-> self, ret |-> FALSE]
    ELSE [self |->
            [self EXCEPT
               !.trades = Append(@, ExitTrade(ticker, quantity, price,
                                              date, metadata)),
               !.positions = RemoveFromPosition(@, ticker, quantity),
               !.current_capital = CapitalAfterExit(self, RMul(quantity, price))],
          ret |-> TRUE]

\* the sum of quantity * prices[ticker] over the tickers of S
RECURSIVE SumValue(_, _, _)
SumValue(positions, prices, S) ==
    IF S = {} THEN Zero
    ELSE LET t == CHOOSE x \in S : TRUE
         IN  RAdd(RMul(positions[t], prices[t]),
                  SumValue(positions, prices, S \ {t}))

\* the position_value of update_portfolio_value: held tickers with no
\* supplied price count for nothing
PositionValue(self, prices) ==
    SumValue(self.positions, prices, (DOMAIN self.positions) \cap (DOMAIN prices))

\* variant: the total leaves the cash out in both modes
TotalValue_PositionsOnly(self, position_value) == position_value

\* the total_value of update_portfolio_value
TotalValue(self, position_value) ==
    IF self.unlimited_capital
    THEN position_value
    ELSE RAdd(self.current_capital, position_value)

\* the 'cash' field of a snapshot
SnapshotCash(self) ==
    IF self.unlimited_capital THEN Zero ELSE self.current_capital

\* variant: a date is valued only once a position is held
update_portfolio_value_HeldOnly(self, date, prices) ==
    IF self.positions = <<>> THEN self
    ELSE [self EXCEPT
            !.portfolio_values =
                Append(@, [date      |-> date,
                           cash      |-> SnapshotCash(self),
                           positions |-> PositionValue(self, prices),
                           total     |-> TotalValue(self, PositionValue(self, prices))])]

\* Portfolio.update_portfolio_value: the portfolio after the call
update_portfolio_value(self, date, prices) ==
    LET position_value == PositionValue(self, prices)
    IN  [self EXCEPT
           !.portfolio_values =
               Append(@, [date      |-> date,
                          cash      |-> SnapshotCash(self),
                          positions |-> position_value,
                          total     |-> TotalValue(self, position_value)])]

\* Portfolio.get_portfolio_history: the rows of the DataFrame
get_portfolio_history(self) == self.portfolio_values

(***************************************************************************)
(* A client of the Portfolio class: any sequence of its three operations   *)
(***************************************************************************)
Tickers == {"AAPL", "MSFT"}
Quantities == {R(0), R(1), R(2)}
Prices == {R(50), R(100)}
InitialCapitals == {R(150)}
Labels == {"optimistic", "neutral"}
\* the date and the metadata a client passes with an order
Stamps == {[date |-> 1, metadata |-> None],
           [date |-> 2, metadata |-> Some({<<"sentiment", "optimistic">>})]}
\* the date and the metadata a client passes with an exit
ExitStamps == {[date |-> 2, metadata |-> None]}
\* the prices dict a client passes to update_portfolio_value
PriceDicts == {<<>>} \cup [{"AAPL"} -> {R(50)}] \cup [Tickers -> {R(100)}]

\* the engine's variables stay as constructed while a client drives the
\* portfolio
EngineIdle ==
    /\ strategy = [position_size |-> R(0), percentage_allocation |-> None,
                   unlimited_capital |-> portfolio.unlimited_capital,
                   initial_capital |-> portfolio.initial_capital,
                   current_capital |-> portfolio.initial_capital]
    /\ price_data = <<>>
    /\ index_name = ""
    /\ sentiment_data = <<>>
    /\ signals = <<>>
    /\ row = 0
    /\ results = None

Init ==
    /\ \E c \in InitialCapitals, u \in BOOLEAN : portfolio = Portfolio(c, u)
    /\ call = [op |-> "none", n |-> 0]
    /\ pc = "client"
    /\ EngineIdle

EnterPosition ==
    /\ pc = "client"
    /\ call.n < MaxCalls
    /\ \E ticker \in Tickers, quantity \in Quantities, price \in Prices,
          stamp \in Stamps :
          LET r == enter_position(portfolio, ticker, quantity, price,
                                  stamp.date, stamp.metadata)
          IN  /\ portfolio' = r.self
              /\ call' = [op |-> "enter", n |-> call.n + 1, ticker |-> ticker,
                          quantity |-> quantity, price |-> price,
                          date |-> stamp.date, metadata |-> stamp.metadata,
                          ret |-> r.ret]
    /\ UNCHANGED <<strategy, price_data, index_name, sentiment_data, signals,
                   pc, row, results>>

ExitPosition ==
    /\ pc = "client"
    /\ call.n < MaxCalls
    /\ \E ticker \in Tickers, quantity \in Quantities, price \in Prices,
          stamp \in ExitStamps :
          LET r == exit_position(portfolio, ticker, quantity, price,
                                 stamp.date, stamp.metadata)
          IN  /\ portfolio' = r.self
              /\ call' = [op |-> "exit", n |-> call.n + 1, ticker |-> ticker,
                          quantity |-> quantity, price |-> price,
                          date |-> stamp.date, metadata |-> stamp.metadata,
                          ret |-> r.ret]
    /\ UNCHANGED <<strategy, price_data, index_name, sentiment_data, signals,
                   pc, row, results>>

UpdatePortfolioValue ==
    /\ pc = "client"
    /\ call.n < MaxCalls
    /\ \E date \in 1..2, prices \in PriceDicts :
          /\ portfolio' = update_portfolio_value(portfolio, date, prices)
          /\ call' = [op |-> "update", n |-> call.n + 1, date |-> date,
                      prices |-> prices]
    /\ UNCHANGED <<strategy, price_data, index_name, sentiment_data, signals,
                   pc, row, results>>

Next == EnterPosition \/ ExitPosition \/ UpdatePortfolioValue

Spec == Init /\ [][Next]_vars

(***************************************************************************)
(* class EarningsSentimentStrategy                                         *)
(***************************************************************************)
\* EarningsSentimentStrategy.__init__ (with BaseStrategy.__init__)
EarningsSentimentStrategy(position_size, percentage_allocation, initial_capital, unlimited_capital) ==
    [position_size         |-> position_size,
     percentage_allocation |-> percentage_allocation,
     unlimited_capital     |-> unlimited_capital,
     initial_capital       |-> initial_capital,
     current_capital       |-> initial_capital]

\* variant: every label but the pessimistic one buys
SignalOf_NotPessimistic(sentiment) == IF sentiment = "pessimistic" THEN 0 ELSE 1

\* one row of the signals frame: 1 for an optimistic label, else 0
SignalOf(sentiment) == IF sentiment = "optimistic" THEN 1 ELSE 0

\* EarningsSentimentStrategy.generate_signals: a frame on the index of the
\* sentiment frame
generate_signals(prices_df, sentiment_df) ==
    [k \in 1..Len(sentiment_df) |->
        [index  |-> sentiment_df[k].index,
         signal |-> SignalOf(sentiment_df[k].sentiment)]]

\* variant: the flat amount, whether or not a percentage is configured
AllocatedAmount_FlatOnly(self) == self.position_size

\* the allocated_amount of calculate_position_size
AllocatedAmount(self) ==
    IF self.percentage_allocation # None
    THEN RMul(self.current_capital, CHOOSE x \in self.percentage_allocation : TRUE)
    ELSE self.position_size

\* variant: the larger of the two amounts
calculate_position_size_Max(self) ==
    IF self.unlimited_capital
    THEN self.position_size
    ELSE IF RLt(AllocatedAmount(self), self.current_capital)
         THEN self.current_capital
         ELSE AllocatedAmount(self)

\* EarningsSentimentStrategy.calculate_position_size
calculate_position_size(self) ==
    IF self.unlimited_capital
    THEN self.position_size
    ELSE RMin(AllocatedAmount(self), self.current_capital)

(***************************************************************************)
(* Dates and frames                                                        *)
(***************************************************************************)
\* the ISO date strings of the calendar, as <<month, day>>: 2023-01-01,
\* 2023-01-02, 2023-01-03 and 2023-02-01
IsoDates == {<<1, 1>>, <<1, 2>>, <<1, 3>>, <<2, 1>>}

\* pd.to_datetime(index).date(): the date an ISO string of January or
\* February denotes
to_date(iso) == (iso[1] - 1) * 31 + iso[2]

\* date.strftime('%Y-%m-%d') of a date of January or February
strftime(date) == <<((date - 1) \div 31) + 1, ((date - 1) % 31) + 1>>

AllDates == {to_date(iso) : iso \in IsoDates}

\* order of two index strings
IsoLess(a, b) == a[1] < b[1] \/ (a[1] = b[1] /\ a[2] < b[2])

\* insert a row into a frame sorted on its index, after the rows that are
\* not greater
RECURSIVE InsertRow(_, _)
InsertRow(sorted, r) ==
    IF sorted = <<>> THEN <<r>>
    ELSE IF IsoLess(r.index, Head(sorted).index)
         THEN <<r>> \o sorted
         ELSE <<Head(sorted)>> \o InsertRow(Tail(sorted), r)

\* variant: the frame is left in the order of the input
sort_index_None(frame) == frame

\* DataFrame.sort_index(ascending=True)
RECURSIVE sort_index(_)
sort_index(frame) ==
    IF frame = <<>> THEN <<>>
    ELSE InsertRow(sort_index(SubSeq(frame, 1, Len(frame) - 1)),
                   frame[Len(frame)])

\* sentiment_data.index = pd.to_datetime(sentiment_data.index).date
ConvertIndex(sentiment_df) ==
    [k \in 1..Len(sentiment_df) |->
        [index     |-> to_date(sentiment_df[k].index),
         sentiment |-> sentiment_df[k].sentiment]]

\* sentiment_data.loc[date, 'sentiment'] on the converted index
SentimentAt(sentiment_df, date) ==
    LET k == CHOOSE j \in 1..Len(sentiment_df) : sentiment_df[j].index = date
    IN  sentiment_df[k].sentiment

\* price_data.index.name or 'UNKNOWN'
TickerOf(name) == IF name = "" THEN "UNKNOWN" ELSE name

(***************************************************************************)
(* core/metrics: returns.py and risk.py                                    *)
(*                                                                         *)
(* A float is a record [kind, v]: a finite number v, nan, +inf or -inf.    *)
(* Float division does not raise: x / 0 is +inf, -inf or nan.              *)
(***************************************************************************)
Num(v) == [kind |-> "num", v |-> v]
NaN == [kind |-> "nan", v |-> Zero]
PosInf == [kind |-> "inf", v |-> Zero]
NegInf == [kind |-> "ninf", v |-> Zero]

IsFinite(x) == x.kind = "num"
IsNaN(x) == x.kind = "nan"

\* the sign of a float that is not nan
Sgn(x) ==
    CASE x.kind = "inf" -> 1
      [] x.kind = "ninf" -> -1
      [] OTHER -> IF x.v[1] > 0 THEN 1 ELSE IF x.v[1] < 0 THEN -1 ELSE 0

\* the infinity of a sign
InfOf(sign) == IF sign > 0 THEN PosInf ELSE NegInf

\* a + b
FAdd(a, b) ==
    IF IsNaN(a) \/ IsNaN(b) THEN NaN
    ELSE IF IsFinite(a) /\ IsFinite(b) THEN Num(RAdd(a.v, b.v))
    ELSE IF ~IsFinite(a) /\ ~IsFinite(b) /\ a.kind # b.kind THEN NaN
    ELSE IF IsFinite(a) THEN b ELSE a

\* a * b
FMul(a, b) ==
    IF IsNaN(a) \/ IsNaN(b) THEN NaN
    ELSE IF IsFinite(a) /\ IsFinite(b) THEN Num(RMul(a.v, b.v))
    ELSE IF Sgn(a) = 0 \/ Sgn(b) = 0 THEN NaN
    ELSE InfOf(Sgn(a) * Sgn(b))

\* a / b
FDiv(a, b) ==
    IF IsNaN(a) \/ IsNaN(b) THEN NaN
    ELSE IF ~IsFinite(b) THEN (IF IsFinite(a) THEN Num(Zero) ELSE NaN)
    ELSE IF ~IsFinite(a) THEN InfOf(IF Sgn(b) < 0 THEN -Sgn(a) ELSE Sgn(a))
    ELSE IF b.v = Zero THEN (IF Sgn(a) = 0 THEN NaN ELSE InfOf(Sgn(a)))
    ELSE Num(RDiv(a.v, b.v))

\* a < b, false when either is nan
FLt(a, b) ==
    /\ ~IsNaN(a) /\ ~IsNaN(b)
    /\ IF IsFinite(a) /\ IsFinite(b) THEN RLt(a.v, b.v)
       ELSE IF a.kind = b.kind THEN FALSE
       ELSE a.kind = "ninf" \/ b.kind = "inf"

\* abs(a)
FAbs(a) ==
    IF IsFinite(a) THEN Num(RAbs(a.v))
    ELSE IF IsNaN(a) THEN NaN ELSE PosInf

\* Series.fillna(0) of one value
fillna(x) == IF IsNaN(x) THEN Num(Zero) ELSE x

\* calculate_returns: prices.pct_change().fillna(0)
calculate_returns(prices) ==
    [k \in 1..Len(prices) |->
        IF k = 1 THEN fillna(NaN)
        ELSE fillna(FAdd(FDiv(Num(prices[k]), Num(prices[k - 1])), Num(R(-1))))]

\* (1 + returns).cumprod()
RECURSIVE cumprod1p(_, _)
cumprod1p(returns, k) ==
    IF k = 1 THEN FAdd(Num(R(1)), returns[1])
    ELSE FMul(cumprod1p(returns, k - 1), FAdd(Num(R(1)), returns[k]))

\* calculate_cumulative_returns: (1 + returns).cumprod() - 1
calculate_cumulative_returns(returns) ==
    [k \in 1..Len(returns) |-> FAdd(cumprod1p(returns, k), Num(R(-1)))]

\* Series.sum() of the first k values
RECURSIVE FSum(_, _)
FSum(xs, k) == IF k = 0 THEN Num(Zero) ELSE FAdd(FSum(xs, k - 1), xs[k])

\* Series.mean() up to the positive factor 1 / len(xs), which changes
\* neither its kind nor its sign: nan for an empty series, else the sum
FMean(xs) == IF xs = <<>> THEN NaN ELSE FSum(xs, Len(xs))

\* the largest of the values that are not nan, nan when there is none
\* (expanding().max() and, with the order reversed, min())
FMax(S) ==
    LET T == {x \in S : ~IsNaN(x)}
    IN  IF T = {} THEN NaN
        ELSE CHOOSE x \in T : \A y \in T : ~FLt(x, y)

FMin(S) ==
    LET T == {x \in S : ~IsNaN(x)}
    IN  IF T = {} THEN NaN
        ELSE CHOOSE x \in T : \A y \in T : ~FLt(y, x)

\* the risk-free rate per period: 0.02 / 252
periods_per_year == 252
risk_free_rate == <<1, 50>>
PeriodRate == RDiv(risk_free_rate, R(periods_per_year))

\* returns - risk_free_rate / periods_per_year
ExcessReturns(returns) ==
    [k \in 1..Len(returns) |-> FAdd(returns[k], Num(RNeg(PeriodRate)))]

\* The result of a ratio metric.  np.sqrt and Series.std are not rational:
\* a finite quotient is kept as the term
\*     sqrt(periods_per_year) * mean(of) / std(over)
\* (kind "ratio"), every other result as the float [kind, v].
Metric(x) == [kind |-> x.kind, v |-> x.v, of |-> <<>>, over |-> <<>>]
Ratio(excess, sample) == [kind |-> "ratio", v |-> Zero, of |-> excess, over |-> sample]

\* Series.std() (ddof = 1) is nan: fewer than two values, or a value that
\* is not finite
StdIsNaN(xs) == Len(xs) < 2 \/ \E k \in 1..Len(xs) : ~IsFinite(xs[k])

\* Series.std() is 0: all values are equal
StdIsZero(xs) == ~StdIsNaN(xs) /\ \A k \in 1..Len(xs) : xs[k] = xs[1]

\* np.sqrt(periods_per_year) * (excess.mean() / sample.std())
AnnualisedRatio(excess, sample) ==
    LET mean == FMean(excess)
    IN  IF StdIsNaN(sample) THEN Metric(NaN)
        ELSE IF StdIsZero(sample) THEN Metric(FDiv(mean, Num(Zero)))
        ELSE IF IsFinite(mean) THEN Ratio(excess, sample)
        ELSE Metric(mean)

\* variant: no early return for an empty series
calculate_sharpe_ratio_NoGuard(returns) ==
    AnnualisedRatio(ExcessReturns(returns), ExcessReturns(returns))

\* calculate_sharpe_ratio with the default rate and periods
calculate_sharpe_ratio(returns) ==
    IF returns = <<>> THEN Metric(Num(Zero))
    ELSE LET excess_returns == ExcessReturns(returns)
         IN  AnnualisedRatio(excess_returns, excess_returns)

\* excess_returns[excess_returns < 0]
RECURSIVE Downside(_)
Downside(xs) ==
    IF xs = <<>> THEN <<>>
    ELSE IF FLt(Head(xs), Num(Zero))
         THEN <<Head(xs)>> \o Downside(Tail(xs))
         ELSE Downside(Tail(xs))

\* calculate_sortino_ratio with the default rate and periods
calculate_sortino_ratio(returns) ==
    IF returns = <<>> THEN Metric(Num(Zero))
    ELSE LET excess_returns == ExcessReturns(returns)
             downside_returns == Downside(excess_returns)
             mean == FMean(excess_returns)
         IN  IF downside_returns = <<>>
             THEN Metric(IF FLt(Num(Zero), mean) THEN PosInf ELSE Num(Zero))
             ELSE AnnualisedRatio(excess_returns, downside_returns)

\* variant: the drawdown is measured from the highest value of the whole
\* series, later values included
calculate_max_drawdown_GlobalPeak(returns) ==
    IF returns = <<>> THEN Num(Zero)
    ELSE LET n == Len(returns)
             cumulative == [k \in 1..n |-> cumprod1p(returns, k)]
             peak == FMax({cumulative[j] : j \in 1..n})
             drawdowns == [k \in 1..n |->
                             FAdd(FDiv(cumulative[k], peak), Num(R(-1)))]
         IN  FAbs(FMin({drawdowns[k] : k \in 1..n}))

\* calculate_max_drawdown
calculate_max_drawdown(returns) ==
    IF returns = <<>> THEN Num(Zero)
    ELSE LET n == Len(returns)
             cumulative == [k \in 1..n |-> cumprod1p(returns, k)]
             rolling_max == [k \in 1..n |-> FMax({cumulative[j] : j \in 1..k})]
             drawdowns == [k \in 1..n |->
                             FAdd(FDiv(cumulative[k], rolling_max[k]), Num(R(-1)))]
         IN  FAbs(FMin({drawdowns[k] : k \in 1..n}))

(***************************************************************************)
(* class BacktestEngine                                                    *)
(***************************************************************************)
\* the close of each trading day of the calendar (the price history the
\* price service would return; a price series is a part of it)
ClosePath(date) ==
    IF date <= 3 THEN R(95 + 5 * date) ELSE R(88)

\* the sum of abs(quantity) * entry_price over the entry trades
RECURSIVE TotalInvestment(_)
TotalInvestment(trades) ==
    IF trades = <<>> THEN Zero
    ELSE LET t == Head(trades)
         IN  RAdd(IF t.type = "entry"
                  THEN RMul(RAbs(t.quantity), t.entry_price)
                  ELSE Zero,
                  TotalInvestment(Tail(trades)))

\* variant: the return is taken from the first snapshot
TotalReturn_FirstSnapshot(self, unlimited, history) ==
    LET final == history[1].total
    IN  IF unlimited
        THEN LET total_investment == TotalInvestment(self.trades)
             IN  IF RLt(Zero, total_investment)
                 THEN RSub(RDiv(final, total_investment), R(1))
                 ELSE Zero
        ELSE RSub(RDiv(final, self.initial_capital), R(1))

\* variant: the starting capital is the base in both modes
TotalReturn_InitialCapital(self, unlimited, history) ==
    RSub(RDiv(history[Len(history)].total, self.initial_capital), R(1))

\* total_return of a run whose history is not empty
TotalReturn(self, unlimited, history) ==
    LET final == history[Len(history)].total
    IN  IF unlimited
        THEN LET total_investment == TotalInvestment(self.trades)
             IN  IF RLt(Zero, total_investment)
                 THEN RSub(RDiv(final, total_investment), R(1))
                 ELSE Zero
        ELSE RSub(RDiv(final, self.initial_capital), R(1))

\* trade.get('metadata', {}).get('sentiment', 'unknown')
SentimentOf(trade) ==
    IF \E item \in trade.metadata : item[1] = "sentiment"
    THEN (CHOOSE item \in trade.metadata : item[1] = "sentiment")[2]
    ELSE "unknown"

\* the price of a trade: entry_price, else exit_price
TradePrice(trade) ==
    IF trade.type = "entry" THEN trade.entry_price ELSE trade.exit_price

\* one element of formatted_trades
FormatTrade(trade) ==
    [date      |-> strftime(trade.date),
     action    |-> IF trade.type = "entry" THEN "buy" ELSE "sell",
     price     |-> TradePrice(trade),
     shares    |-> RAbs(trade.quantity),
     value     |-> RMul(RAbs(trade.quantity), TradePrice(trade)),
     sentiment |-> SentimentOf(trade)]

\* the results dictionary of a run whose history is not empty
Results(self, strat, history) ==
    LET unlimited == strat.unlimited_capital
        returns == calculate_returns([k \in 1..Len(history) |-> history[k].total])
        base == [initial_capital |-> self.initial_capital,
                 final_capital   |-> history[Len(history)].total,
                 total_return    |-> TotalReturn(self, unlimited, history),
                 sharpe_ratio    |-> calculate_sharpe_ratio(returns),
                 sortino_ratio   |-> calculate_sortino_ratio(returns),
                 max_drawdown    |-> calculate_max_drawdown(returns),
                 win_rate        |-> <<3, 5>>]
        metrics ==
            IF unlimited
            THEN [initial_capital |-> base.initial_capital,
                  final_capital   |-> base.final_capital,
                  total_return    |-> base.total_return,
                  sharpe_ratio    |-> base.sharpe_ratio,
                  sortino_ratio   |-> base.sortino_ratio,
                  max_drawdown    |-> base.max_drawdown,
                  win_rate        |-> base.win_rate,
                  unlimited_mode  |-> TRUE,
                  total_investment |-> TotalInvestment(self.trades),
                  position_size_per_trade |-> strat.position_size,
                  number_of_trades |-> Len(self.trades)]
            ELSE base
    IN  [performance_metrics |-> metrics,
         trades |-> [k \in 1..Len(self.trades) |-> FormatTrade(self.trades[k])],
         equity_curve |->
             [dates  |-> [k \in 1..Len(history) |-> strftime(history[k].date)],
              values |-> [k \in 1..Len(history) |-> history[k].total]]]

\* BacktestEngine.__init__: the portfolio of the engine
EnginePortfolio(strat, initial_capital) ==
    Portfolio(initial_capital, strat.unlimited_capital)

\* sequences of at most n rows on distinct index strings
SentimentFrames(n) ==
    LET Rows == [index : IsoDates, sentiment : Labels]
    IN  {f \in UNION {[1..k -> Rows] : k \in 0..n} :
            \A i, j \in DOMAIN f : i # j => f[i].index # f[j].index}

\* price series: the closes of at most n trading days, at least one
PriceFrames(n) ==
    {[d \in S |-> ClosePath(d)] :
        S \in {T \in SUBSET AllDates : T # {} /\ Cardinality(T) <= n}}

Strategies ==
    {EarningsSentimentStrategy(R(100), pa, R(1000), u) :
        pa \in {None, Some(<<1, 2>>)}, u \in BOOLEAN}

EngineCapitals == {R(1000), R(150)}

InitRun ==
    /\ strategy \in Strategies
    /\ \E c \in EngineCapitals : portfolio = EnginePortfolio(strategy, c)
    /\ price_data \in PriceFrames(MaxPriceRows)
    /\ index_name \in {"", "AAPL"}
    /\ sentiment_data \in SentimentFrames(MaxRows)
    /\ signals = <<>>
    /\ row = 0
    /\ results = None
    /\ call = [op |-> "none", n |-> 0]
    /\ pc = "constructed"

\* run, up to the loop: signals are generated, the index of the caller's
\* sentiment frame is converted to dates, the signals are sorted.  The log
\* line that reads sentiment_data.index[0] raises on an empty frame.
RunStart ==
    /\ pc = "constructed"
    /\ sentiment_data' = ConvertIndex(sentiment_data)
    /\ IF sentiment_data = <<>>
       THEN /\ pc' = "raised"
            /\ signals' = generate_signals(price_data, sentiment_data)
            /\ call' = [op |-> "raise", n |-> 0, error |-> "IndexError"]
            /\ row' = row
       ELSE /\ pc' = "loop"
            /\ signals' = sort_index(generate_signals(price_data, sentiment_data))
            /\ call' = [op |-> "start", n |-> 0]
            /\ row' = 1
    /\ UNCHANGED <<portfolio, strategy, price_data, index_name, results>>

\* the order the loop places for a buy signal on a priced date
OrderSize(strat, self) ==
    calculate_position_size([strat EXCEPT !.current_capital = self.current_capital])

\* variant: the date is not looked up before the entry
SkipEntry_Never(signal, date, prices) == FALSE

\* "if row['signal'] == 1: if date not in price_data.index: continue"
SkipEntry(signal, date, prices) == signal = 1 /\ date \notin DOMAIN prices

\* one iteration of the loop over the sorted signals
RunStep ==
    /\ pc = "loop"
    /\ row <= Len(signals)
    /\ LET date == to_date(signals[row].index)
           buy == signals[row].signal = 1
           priced == date \in DOMAIN price_data
           ticker == TickerOf(index_name)
       IN  IF SkipEntry(signals[row].signal, date, price_data)
           THEN \* continue
                /\ call' = [op |-> "skip", n |-> row, date |-> date]
                /\ row' = row + 1
                /\ UNCHANGED <<portfolio, strategy, pc>>
           ELSE IF ~priced
           THEN \* price_data.loc[date, 'Close'] raises KeyError, re-raised
                /\ call' = [op |-> "raise", n |-> row, error |-> "KeyError",
                            date |-> date]
                /\ pc' = "raised"
                /\ UNCHANGED <<portfolio, strategy, row>>
           ELSE IF buy
           THEN LET close_price == price_data[date]
                    position_size == OrderSize(strategy, portfolio)
                    quantity == RDiv(position_size, close_price)
                    r == enter_position(portfolio, ticker, quantity, close_price,
                             date,
                             Some({<<"sentiment", SentimentAt(sentiment_data, date)>>}))
                IN  /\ strategy' = [strategy EXCEPT
                                      !.current_capital = portfolio.current_capital]
                    /\ portfolio' = update_portfolio_value(r.self, date,
                                        [t \in {ticker} |-> close_price])
                    /\ call' = [op |-> "buy", n |-> row, date |-> date,
                                position_size |-> position_size,
                                quantity |-> quantity, price |-> close_price,
                                ret |-> r.ret]
                    /\ row' = row + 1
                    /\ pc' = pc
           ELSE /\ portfolio' = update_portfolio_value(portfolio, date,
                                    [t \in {ticker} |-> price_data[date]])
                /\ call' = [op |-> "value", n |-> row, date |-> date]
                /\ row' = row + 1
                /\ UNCHANGED <<strategy, pc>>
    /\ UNCHANGED <<price_data, index_name, sentiment_data, signals, results>>

\* run, after the loop: the metrics and the results dictionary.  Reading
\* the 'total' column of an empty history raises KeyError.
RunFinish ==
    /\ pc = "loop"
    /\ row > Len(signals)
    /\ LET history == get_portfolio_history(portfolio)
       IN  IF history = <<>>
           THEN /\ pc' = "raised"
                /\ call' = [op |-> "raise", n |-> row, error |-> "KeyError"]
                /\ results' = results
           ELSE /\ pc' = "done"
                /\ call' = [op |-> "finish", n |-> row]
                /\ results' = Some(Results(portfolio, strategy, history))
    /\ UNCHANGED <<portfolio, strategy, price_data, index_name, sentiment_data,
                   signals, row>>

NextRun == RunStart \/ RunStep \/ RunFinish

SpecRun == InitRun /\ [][NextRun]_vars

(***************************************************************************)
(* A caller that calls run a second time on the same engine, with inputs   *)
(* equal to those of the first call.  The engine keeps the portfolio built *)
(* by __init__ and the results of the first call until run overwrites      *)
(* them on return; the strategy keeps the current_capital it was given.    *)
(***************************************************************************)
\* the history holds one run: no date was valued twice
RanOnce ==
    \A i, j \in 1..Len(portfolio.portfolio_values) :
        i # j => portfolio.portfolio_values[i].date # portfolio.portfolio_values[j].date

\* a sentiment frame equal to the one passed to the first call: the index
\* strings of the dates
SameSentiment(sentiment_df) ==
    [k \in 1..Len(sentiment_df) |->
        [index     |-> strftime(sentiment_df[k].index),
         sentiment |-> sentiment_df[k].sentiment]]

RunAgain ==
    /\ pc = "done"
    /\ RanOnce
    /\ pc' = "constructed"
    /\ sentiment_data' = SameSentiment(sentiment_data)
    /\ signals' = <<>>
    /\ row' = 0
    /\ call' = [op |-> "again", n |-> 0]
    /\ UNCHANGED <<portfolio, strategy, price_data, index_name, results>>

NextAgain == RunStart \/ RunStep \/ RunFinish \/ RunAgain

\* engines as in InitRun, given sentiment frames of at most one row
InitAgain ==
    /\ strategy \in Strategies
    /\ \E c \in EngineCapitals : portfolio = EnginePortfolio(strategy, c)
    /\ price_data \in PriceFrames(MaxPriceRows)
    /\ index_name \in {"", "AAPL"}
    /\ sentiment_data \in SentimentFrames(1)
    /\ signals = <<>>
    /\ row = 0
    /\ results = None
    /\ call = [op |-> "none", n |-> 0]
    /\ pc = "constructed"

SpecAgain == InitAgain /\ [][NextAgain]_vars

(***************************************************************************)
(* POST /backtest/run: run_backtest builds the strategy from the request   *)
(* and the engine from the strategy alone, then calls run once.            *)
(***************************************************************************)
\* the default of the initial_capital parameter of BacktestEngine.__init__
DefaultInitialCapital == R(100000)

\* the fields of a BacktestRequest that reach the strategy
BacktestRequests ==
    [initial_capital   : {R(100000), R(1000)},
     position_size     : {R(10000), R(100)},
     unlimited_capital : BOOLEAN]

\* the strategy run_backtest constructs
RequestStrategy(request) ==
    EarningsSentimentStrategy(request.position_size, None,
                              request.initial_capital, request.unlimited_capital)

InitApi ==
    /\ \E request \in BacktestRequests :
          /\ strategy = RequestStrategy(request)
          /\ portfolio = EnginePortfolio(strategy, DefaultInitialCapital)
    /\ price_data \in PriceFrames(MaxPriceRows)
    /\ index_name \in {"", "AAPL"}
    /\ sentiment_data \in SentimentFrames(1)
    /\ signals = <<>>
    /\ row = 0
    /\ results = None
    /\ call = [op |-> "none", n |-> 0]
    /\ pc = "constructed"

NextApi == RunStart \/ RunStep \/ RunFinish

SpecApi == InitApi /\ [][NextApi]_vars

(***************************************************************************)
(* The pure functions of the strategy and of core/metrics, each applied    *)
(* once to an input drawn by the initial state.  The risk metrics are      *)
(* applied to a return series given directly, or, as BacktestEngine.run    *)
(* does, to the result of calculate_returns.                               *)
(***************************************************************************)
\* the constructor arguments and the capital of a strategy: no argument is
\* validated
SizingAmounts == {R(-100), R(0), R(100), R(2000)}
SizingPercentages ==
    {None, Some(<<-1, 2>>), Some(Zero), Some(<<1, 2>>), Some(<<3, 2>>)}
SizingCapitals == {R(-50), R(0), R(150), R(1000)}

SizingInputs ==
    {[EarningsSentimentStrategy(ps, pa, R(1000), u) EXCEPT !.current_capital = c] :
        ps \in SizingAmounts, pa \in SizingPercentages,
        c \in SizingCapitals, u \in BOOLEAN}

\* sentiment frames with every label of the analysis
AllLabels == Labels \cup {"pessimistic"}

LabelFrames(n) ==
    LET Rows == [index : IsoDates, sentiment : AllLabels]
    IN  {f \in UNION {[1..k -> Rows] : k \in 0..n} :
            \A i, j \in DOMAIN f : i # j => f[i].index # f[j].index}

\* series of portfolio totals or prices, and of period returns
SeriesValues == {R(0), R(50), R(100), R(200)}
SeriesReturns == {Num(<<-1, 10>>), Num(Zero), Num(<<1, 10>>)}
SeriesOf(S, n) == UNION {[1..k -> S] : k \in 0..n}

\* an input waiting for its function
Pending(fn, arg) == [op |-> "pending", n |-> 0, fn |-> fn, arg |-> arg]

IdleStrategy == EarningsSentimentStrategy(R(0), None, R(150), FALSE)

InitFn ==
    /\ pc = "pure"
    /\ portfolio = Portfolio(R(150), FALSE)
    /\ index_name = ""
    /\ signals = <<>>
    /\ row = 0
    /\ results = None
    /\ \/ /\ strategy \in SizingInputs
          /\ price_data = <<>>
          /\ sentiment_data = <<>>
          /\ call = Pending("calculate_position_size", <<>>)
       \/ /\ strategy = IdleStrategy
          /\ price_data \in PriceFrames(MaxPriceRows)
          /\ sentiment_data \in LabelFrames(MaxRows)
          /\ call = Pending("generate_signals", <<>>)
       \/ /\ strategy = IdleStrategy
          /\ price_data = <<>>
          /\ sentiment_data = <<>>
          /\ \/ \E prices \in SeriesOf(SeriesValues, MaxLen) :
                    call = Pending("calculate_returns", prices)
             \/ \E returns \in SeriesOf(SeriesReturns, MaxLen) :
                    call = Pending("risk_metrics", returns)

CalculatePositionSize ==
    /\ pc = "pure"
    /\ call.op = "pending"
    /\ call.fn = "calculate_position_size"
    /\ call' = [op |-> "calculate_position_size", n |-> 1,
                ret |-> calculate_position_size(strategy)]
    /\ UNCHANGED <<portfolio, strategy, price_data, index_name, sentiment_data,
                   signals, pc, row, results>>

GenerateSignals ==
    /\ pc = "pure"
    /\ call.op = "pending"
    /\ call.fn = "generate_signals"
    /\ signals' = generate_signals(price_data, sentiment_data)
    /\ call' = [op |-> "generate_signals", n |-> 1]
    /\ UNCHANGED <<portfolio, strategy, price_data, index_name, sentiment_data,
                   pc, row, results>>

CalculateReturns ==
    /\ pc = "pure"
    /\ call.op = "pending"
    /\ call.fn = "calculate_returns"
    /\ call' = [op |-> "calculate_returns", n |-> 1, arg |-> call.arg,
                ret |-> calculate_returns(call.arg)]
    /\ UNCHANGED <<portfolio, strategy, price_data, index_name, sentiment_data,
                   signals, pc, row, results>>

\* the three risk metrics of one return series
RiskMetrics(n, from_prices, prices, returns) ==
    [op            |-> "risk_metrics",
     n             |-> n,
     from_prices   |-> from_prices,
     prices        |-> prices,
     arg           |-> returns,
     sharpe_ratio  |-> calculate_sharpe_ratio(returns),
     sortino_ratio |-> calculate_sortino_ratio(returns),
     max_drawdown  |-> calculate_max_drawdown(returns)]

CalculateRiskMetrics ==
    /\ pc = "pure"
    /\ \/ /\ call.op = "pending"
          /\ call.fn = "risk_metrics"
          /\ call' = RiskMetrics(1, FALSE, <<>>, call.arg)
       \/ /\ call.op = "calculate_returns"
          /\ call' = RiskMetrics(2, TRUE, call.arg, call.ret)
    /\ UNCHANGED <<portfolio, strategy, price_data, index_name, sentiment_data,
                   signals, pc, row, results>>

NextFn ==
    \/ CalculatePositionSize
    \/ GenerateSignals
    \/ CalculateReturns
    \/ CalculateRiskMetrics

SpecFn == InitFn /\ [][NextFn]_vars

(***************************************************************************)
(* Properties of the Portfolio class (specification Spec)                  *)
(***************************************************************************)
Constrained == ~portfolio.unlimited_capital

\* C1: in constrained mode current_capital is never negative, whatever
\* sequence of calls was made.
C1_CapitalNeverNegative ==
    Constrained => RLe(Zero, portfolio.current_capital)

\* an accepted entry has used up the cash exactly, after another call
C1_Witness ==
    /\ Constrained
    /\ call.op = "enter" /\ call.ret
    /\ portfolio.current_capital = Zero
    /\ Len(portfolio.trades) >= 2

\* C2: a constrained enter_position whose cost quantity * price is greater
\* than current_capital returns False and leaves current_capital,
\* positions, trades and portfolio_values as they were.
C2_RejectedEntryChangesNothing ==
    [][(/\ call'.op = "enter"
        /\ call'.n = call.n + 1
        /\ Constrained
        /\ RLt(portfolio.current_capital, RMul(call'.quantity, call'.price)))
       => (/\ call'.ret = FALSE
           /\ portfolio'.current_capital = portfolio.current_capital
           /\ portfolio'.positions = portfolio.positions
           /\ portfolio'.trades = portfolio.trades
           /\ portfolio'.portfolio_values = portfolio.portfolio_values)]_vars

\* an entry was rejected by a portfolio that holds a position and a snapshot
C2_Witness ==
    /\ Constrained
    /\ call.op = "enter" /\ ~call.ret
    /\ RLt(portfolio.current_capital, RMul(call.quantity, call.price))
    /\ portfolio.trades # <<>>
    /\ portfolio.portfolio_values # <<>>

\* quantity held of a ticker, 0 when it is not in the map
Held(positions, ticker) ==
    IF ticker \in DOMAIN positions THEN positions[ticker] ELSE Zero

\* C3: a successful enter_position appends exactly one trade of type
\* 'entry' with the given ticker, quantity, price, date and metadata, adds
\* quantity to positions[ticker] and, in constrained mode, takes exactly
\* quantity * price from current_capital.
C3_AcceptedEntryEffect ==
    [][(call'.op = "enter" /\ call'.n = call.n + 1 /\ call'.ret)
       => (/\ portfolio'.trades =
                portfolio.trades \o
                  <<[ticker |-> call'.ticker, quantity |-> call'.quantity,
                     entry_price |-> call'.price, date |-> call'.date,
                     type |-> "entry",
                     metadata |-> UNION call'.metadata]>>
           /\ call'.ticker \in DOMAIN portfolio'.positions
           /\ \A t \in Tickers :
                Held(portfolio'.positions, t) =
                  IF t = call'.ticker
                  THEN RAdd(Held(portfolio.positions, t), call'.quantity)
                  ELSE Held(portfolio.positions, t)
           /\ Constrained =>
                portfolio'.current_capital =
                  RSub(portfolio.current_capital,
                       RMul(call'.quantity, call'.price))
           /\ portfolio'.portfolio_values = portfolio.portfolio_values)]_vars

\* a second entry in the same ticker was accepted: the holding is the sum
C3_Witness ==
    /\ Constrained
    /\ call.op = "enter" /\ call.ret
    /\ Len(portfolio.trades) = 2
    /\ portfolio.trades[1].type = "entry"
    /\ portfolio.trades[1].ticker = call.ticker
    /\ Held(portfolio.positions, call.ticker) = R(3)
    /\ portfolio.current_capital = Zero

\* C4: in unlimited-capital mode enter_position never fails, current_capital
\* stays equal to initial_capital, and every snapshot has cash = 0 and
\* total = positions.
C4_UnlimitedMode ==
    portfolio.unlimited_capital =>
        /\ call.op = "enter" => call.ret
        /\ portfolio.current_capital = portfolio.initial_capital
        /\ \A k \in 1..Len(portfolio.portfolio_values) :
              /\ portfolio.portfolio_values[k].cash = Zero
              /\ portfolio.portfolio_values[k].total =
                    portfolio.portfolio_values[k].positions

\* an entry that costs more than the initial capital was accepted, after a
\* snapshot of a position with a market value
C4_Witness ==
    /\ portfolio.unlimited_capital
    /\ call.op = "enter" /\ call.ret
    /\ RLt(portfolio.initial_capital, RMul(call.quantity, call.price))
    /\ \E k \in 1..Len(portfolio.portfolio_values) :
          RLt(Zero, portfolio.portfolio_values[k].positions)

\* C5: in constrained mode the snapshot appended by update_portfolio_value
\* has cash = current_capital at the time of the call and
\* cash + positions = total.
C5_SnapshotAddsUp ==
    [][(call'.op = "update" /\ call'.n = call.n + 1 /\ Constrained)
       => LET n == Len(portfolio'.portfolio_values)
              snap == portfolio'.portfolio_values[n]
          IN  /\ n = Len(portfolio.portfolio_values) + 1
              /\ SubSeq(portfolio'.portfolio_values, 1, n - 1) =
                    portfolio.portfolio_values
              /\ snap.cash = portfolio.current_capital
              /\ RAdd(snap.cash, snap.positions) = snap.total]_vars

\* a snapshot was taken of a portfolio with both cash and a valued position
C5_Witness ==
    /\ Constrained
    /\ call.op = "update"
    /\ LET snap == portfolio.portfolio_values[Len(portfolio.portfolio_values)]
       IN  /\ RLt(Zero, snap.positions)
           /\ RLt(Zero, snap.cash)
           /\ RLt(snap.cash, portfolio.initial_capital)

(***************************************************************************)
(* Properties of BacktestEngine.run (specification SpecRun)                *)
(***************************************************************************)
\* the dates of a sequence of records never decrease
DatesAscend(records) ==
    \A i, j \in 1..Len(records) : i < j => records[i].date <= records[j].date

\* C6: whatever the order of the sentiment rows, the loop visits the signal
\* dates in ascending order, so the trade log and the snapshot history are
\* in non-decreasing date order at every point of the run.
C6_ChronologicalReplay ==
    /\ pc = "loop" =>
          \A i, j \in 1..Len(signals) :
              i < j => to_date(signals[i].index) <= to_date(signals[j].index)
    /\ DatesAscend(portfolio.trades)
    /\ DatesAscend(portfolio.portfolio_values)

\* the sentiment rows came latest first, and two of them were traded
C6_Witness ==
    /\ pc = "done"
    /\ Len(sentiment_data) = 2
    /\ sentiment_data[1].index > sentiment_data[2].index
    /\ Len(portfolio.trades) = 2
    /\ Len(portfolio.portfolio_values) = 2
    /\ portfolio.trades[1].date < portfolio.trades[2].date

\* the row the loop is about to process
AtRow == pc = "loop" /\ row <= Len(signals)
RowDate == to_date(signals[row].index)

\* C7: for a buy signal on a date absent from the price series the loop
\* records no trade and no snapshot, changes no portfolio state, raises
\* nothing and goes on to the next signal date.
C7_BuyOnUnpricedDateSkipped ==
    [][(AtRow /\ signals[row].signal = 1 /\ RowDate \notin DOMAIN price_data)
       => (/\ portfolio' = portfolio
           /\ pc' = "loop"
           /\ row' = row + 1)]_vars

\* after a trade, the buy of the second signal date was skipped for want
\* of a price, and the loop went on to trade the third
C7_Witness ==
    /\ call.op = "buy" /\ call.n = 3
    /\ signals[2].signal = 1
    /\ to_date(signals[2].index) \notin DOMAIN price_data
    /\ Len(portfolio.trades) = 2
    /\ Len(portfolio.portfolio_values) = 2

\* C8: for any signal date missing from the price series, buy or no-buy,
\* the loop skips the step and continues; the run is not aborted.
C8_UnpricedDateNeverAborts ==
    [][(AtRow /\ RowDate \notin DOMAIN price_data)
       => (/\ pc' = "loop"
           /\ row' = row + 1
           /\ portfolio'.portfolio_values = portfolio.portfolio_values)]_vars

\* every signal date is absent from the price series
AllSignalsUnpriced ==
    /\ pc # "constructed"
    /\ signals # <<>>
    /\ \A k \in 1..Len(signals) : to_date(signals[k].index) \notin DOMAIN price_data

\* C9: a run in which every signal date is absent from the price series,
\* so that its loop ends with no snapshot produced, completes without
\* raising and returns a report with zero trades.
C9_AllUnpricedRunCompletes ==
    (AllSignalsUnpriced /\ row > Len(signals)) =>
        /\ pc # "raised"
        /\ pc = "done" =>
              /\ results # None
              /\ \A res \in results : res.trades = <<>>

\* the end-to-end scenario: closes 100, 105, 110 on 2023-01-01..03, one
\* optimistic signal on 2023-01-01, fixed position size 100, starting
\* capital 1000, constrained mode
Scenario ==
    /\ DOMAIN price_data = {1, 2, 3}
    /\ price_data[1] = R(100) /\ price_data[2] = R(105) /\ price_data[3] = R(110)
    /\ Len(sentiment_data) = 1
    /\ pc # "constructed"
    /\ signals = <<[index |-> <<1, 1>>, signal |-> 1]>>
    /\ sentiment_data[1].sentiment = "optimistic"
    /\ strategy.position_size = R(100)
    /\ strategy.percentage_allocation = None
    /\ ~strategy.unlimited_capital
    /\ portfolio.initial_capital = R(1000)

\* C10: in the end-to-end scenario the run records exactly one entry trade
\* of 1 share at 100 dated 2023-01-01, and the snapshot of day 1 has cash
\* 900, positions 100 and total 1000.
C10_ScenarioDayOne ==
    (Scenario /\ pc = "done") =>
        /\ Len(portfolio.trades) = 1
        /\ portfolio.trades[1].type = "entry"
        /\ portfolio.trades[1].quantity = R(1)
        /\ portfolio.trades[1].entry_price = R(100)
        /\ strftime(portfolio.trades[1].date) = <<1, 1>>
        /\ portfolio.portfolio_values[1] =
              [date |-> 1, cash |-> R(900), positions |-> R(100),
               total |-> R(1000)]
        /\ \A res \in results :
              /\ Len(res.trades) = 1
              /\ res.trades[1] =
                    [date |-> <<1, 1>>, action |-> "buy", price |-> R(100),
                     shares |-> R(1), value |-> R(100),
                     sentiment |-> "optimistic"]

\* the scenario has run to its end
C10_Witness ==
    /\ Scenario
    /\ pc = "done"
    /\ results # None
    /\ portfolio.trades # <<>>

\* C11: in the end-to-end scenario the equity curve holds a snapshot for
\* each of the three price dates (2023-01-01, 2023-01-02, 2023-01-03) and
\* total_return is computed from the total of day 3.
C11_ScenarioThreeSnapshots ==
    (Scenario /\ pc = "done") =>
        \A res \in results :
            /\ res.equity_curve.dates = <<<<1, 1>>, <<1, 2>>, <<1, 3>>>>
            /\ Len(res.equity_curve.values) = 3
            /\ res.performance_metrics.total_return =
                  RSub(RDiv(res.equity_curve.values[3], R(1000)), R(1))

\* the total of the last snapshot of the history
FinalTotal == portfolio.portfolio_values[Len(portfolio.portfolio_values)].total

\* C12: in constrained mode the reported total_return is the total of the
\* last snapshot divided by the portfolio's initial_capital, minus 1.
C12_ConstrainedTotalReturn ==
    (pc = "done" /\ Constrained) =>
        \A res \in results :
            res.performance_metrics.total_return =
                RSub(RDiv(FinalTotal, portfolio.initial_capital), R(1))

\* a constrained run ended on a gain: its last snapshot differs from its
\* first
C12_Witness ==
    /\ pc = "done" /\ Constrained
    /\ Len(portfolio.portfolio_values) >= 2
    /\ portfolio.portfolio_values[1].total # FinalTotal
    /\ \E res \in results : RLt(Zero, res.performance_metrics.total_return)

\* the cost basis of the first k trades: abs(quantity) * entry_price of
\* each entry
RECURSIVE CostBasis(_, _)
CostBasis(trades, k) ==
    IF k = 0 THEN Zero
    ELSE RAdd(CostBasis(trades, k - 1),
              IF trades[k].type = "entry"
              THEN RMul(RAbs(trades[k].quantity), trades[k].entry_price)
              ELSE Zero)

\* C13: in unlimited-capital mode the reported total_return is the total of
\* the last snapshot divided by total_investment, minus 1, where
\* total_investment is the sum of abs(quantity) * entry_price over the entry
\* trades; it is 0 when total_investment is not greater than 0.
C13_UnlimitedTotalReturn ==
    (pc = "done" /\ ~Constrained) =>
        LET total_investment ==
                CostBasis(portfolio.trades, Len(portfolio.trades))
        IN  \A res \in results :
                /\ res.performance_metrics.total_investment = total_investment
                /\ res.performance_metrics.total_return =
                      IF RLt(Zero, total_investment)
                      THEN RSub(RDiv(FinalTotal, total_investment), R(1))
                      ELSE Zero

\* an unlimited run made two entries and ended on a loss
C13_Witness ==
    /\ pc = "done" /\ ~Constrained
    /\ Len(portfolio.trades) = 2
    /\ \E res \in results : RLt(res.performance_metrics.total_return, Zero)

(***************************************************************************)
(* run_tasks_concurrently and async_llm_batch: the submitted coroutines    *)
(* are wrapped in _bounded_task / _bounded_llm_call, which awaits each     *)
(* inside "async with semaphore", and handed to asyncio.gather.  The       *)
(* variable call holds the frame of the gather: the semaphore's value and  *)
(* FIFO waiters, the position of every wrapper, the order of completion.   *)
(* The event loop is one thread: a step of a wrapper runs to its next      *)
(* await, and the wrappers take their first step in submission order.      *)
(***************************************************************************)
\* the limits a caller or LLM_CONCURRENCY can configure: Semaphore accepts
\* every value >= 0
Limits == {0, 1, 2}

\* the frame of gather over n wrappers
Gather(n, limit, return_exceptions) ==
    [op                |-> "gather",
     n                 |-> n,
     limit             |-> limit,
     return_exceptions |-> return_exceptions,
     value             |-> limit,
     waiters           |-> <<>>,
     at                |-> [i \in 1..n |-> "created"],
     finished          |-> <<>>,
     ret               |-> <<>>]

InitTasks ==
    /\ pc = "gather"
    /\ \E n \in 0..MaxTasks, limit \in Limits, return_exceptions \in BOOLEAN :
          call = Gather(n, limit, return_exceptions)
    /\ portfolio = Portfolio(R(150), FALSE)
    /\ strategy = IdleStrategy
    /\ price_data = <<>>
    /\ index_name = ""
    /\ sentiment_data = <<>>
    /\ signals = <<>>
    /\ row = 0
    /\ results = None

\* the wrappers are still scheduled: gather has not returned a result
Scheduled == pc \in {"gather", "raised"}

\* the next wrapper to take its first step
FirstStep(i) ==
    /\ i \in 1..call.n
    /\ call.at[i] = "created"
    /\ \A j \in 1..(i - 1) : call.at[j] # "created"

\* Semaphore.locked(): no permit, or a waiter is ahead
Locked == call.value = 0 \/ call.waiters # <<>>

\* "async with semaphore" finds a permit: the coroutine starts
SemaphoreAcquire ==
    /\ Scheduled
    /\ \E i \in 1..call.n :
          /\ FirstStep(i)
          /\ ~Locked
          /\ call' = [call EXCEPT !.op = "acquire",
                                  !.value = @ - 1,
                                  !.at[i] = "running"]
    /\ UNCHANGED <<portfolio, strategy, price_data, index_name, sentiment_data,
                   signals, pc, row, results>>

\* "async with semaphore" finds it locked: the wrapper joins the waiters
SemaphoreWait ==
    /\ Scheduled
    /\ \E i \in 1..call.n :
          /\ FirstStep(i)
          /\ Locked
          /\ call' = [call EXCEPT !.op = "wait",
                                  !.waiters = Append(@, i),
                                  !.at[i] = "waiting"]
    /\ UNCHANGED <<portfolio, strategy, price_data, index_name, sentiment_data,
                   signals, pc, row, results>>

\* the first waiter, woken by a release, takes the permit
SemaphoreWakeUp ==
    /\ Scheduled
    /\ call.waiters # <<>>
    /\ call.value > 0
    /\ call' = [call EXCEPT !.op = "wake_up",
                            !.value = @ - 1,
                            !.waiters = Tail(@),
                            !.at[Head(call.waiters)] = "running"]
    /\ UNCHANGED <<portfolio, strategy, price_data, index_name, sentiment_data,
                   signals, pc, row, results>>

\* a running coroutine returns or raises; leaving "async with" releases
\* the permit either way
CoroutineFinish ==
    /\ Scheduled
    /\ \E i \in 1..call.n, outcome \in {"done", "failed"} :
          /\ call.at[i] = "running"
          /\ call' = [call EXCEPT !.op = "finish",
                                  !.value = @ + 1,
                                  !.at[i] = outcome,
                                  !.finished = Append(@, i)]
    /\ UNCHANGED <<portfolio, strategy, price_data, index_name, sentiment_data,
                   signals, pc, row, results>>

\* the outcome of wrapper i as gather reports it
Outcome(i) == [task |-> i, ok |-> call.at[i] = "done"]

\* the list gather returns: the outcomes in the order of the awaitables
GatherResults == [i \in 1..call.n |-> Outcome(i)]

\* gather returns once every wrapper is done; an exception takes its place
\* in the list only with return_exceptions
GatherReturn ==
    /\ pc = "gather"
    /\ \A i \in 1..call.n : call.at[i] \in {"done", "failed"}
    /\ call.return_exceptions \/ \A i \in 1..call.n : call.at[i] = "done"
    /\ call' = [call EXCEPT !.op = "return", !.ret = GatherResults]
    /\ pc' = "returned"
    /\ UNCHANGED <<portfolio, strategy, price_data, index_name, sentiment_data,
                   signals, row, results>>

\* without return_exceptions gather raises the first exception; the other
\* wrappers stay scheduled
GatherRaise ==
    /\ pc = "gather"
    /\ ~call.return_exceptions
    /\ \E i \in 1..call.n : call.at[i] = "failed"
    /\ call' = [call EXCEPT !.op = "raise"]
    /\ pc' = "raised"
    /\ UNCHANGED <<portfolio, strategy, price_data, index_name, sentiment_data,
                   signals, row, results>>

NextTasks ==
    \/ SemaphoreAcquire
    \/ SemaphoreWait
    \/ SemaphoreWakeUp
    \/ CoroutineFinish
    \/ GatherReturn
    \/ GatherRaise

SpecTasks == InitTasks /\ [][NextTasks]_vars

\* the event loop runs every ready callback, and a request ends by its
\* response or by the client timeout
SpecTasksFair == SpecTasks /\ WF_vars(NextTasks)

(***************************************************************************)
(* Claims about the pure functions (SpecFn)                                *)
(***************************************************************************)
Sized == call.op = "calculate_position_size"

\* min(a, b) as a relation: x is one of the two and exceeds neither
IsMin(x, a, b) == x \in {a, b} /\ RLe(x, a) /\ RLe(x, b)

\* C14: calculate_position_size returns the fixed position_size when
\* unlimited_capital is set, whatever the capital and the percentage;
\* otherwise min(current_capital * percentage_allocation, current_capital)
\* when a percentage is configured and min(position_size, current_capital)
\* when it is not.
C14_PositionSizePolicy ==
    Sized =>
        IF strategy.unlimited_capital
        THEN call.ret = strategy.position_size
        ELSE IF strategy.percentage_allocation # None
             THEN \A pct \in strategy.percentage_allocation :
                     IsMin(call.ret, RMul(strategy.current_capital, pct),
                           strategy.current_capital)
             ELSE IsMin(call.ret, strategy.position_size, strategy.current_capital)

C14_Witness ==
    /\ Sized
    /\ ~strategy.unlimited_capital
    /\ strategy.percentage_allocation = Some(<<1, 2>>)
    /\ strategy.current_capital = R(150)
    /\ strategy.position_size = R(2000)
    /\ call.ret = R(75)

\* C15: calculate_position_size never returns a negative amount, for every
\* configuration and every current capital, and returns 0 when the capital
\* is 0 in constrained mode.
C15_PositionSizeNeverNegative ==
    Sized =>
        /\ RLe(Zero, call.ret)
        /\ (~strategy.unlimited_capital /\ strategy.current_capital = Zero)
               => call.ret = Zero

Generated == call.op = "generate_signals"

\* C16: generate_signals returns one row per row of the sentiment input,
\* with the same index, whose signal is 1 exactly when that row's label is
\* 'optimistic' and 0 otherwise; the signal of a date changes neither with
\* the price series nor with the label of any other date.
C16_SignalsFollowLabels ==
    Generated =>
        /\ Len(signals) = Len(sentiment_data)
        /\ \A k \in 1..Len(signals) :
              /\ signals[k].index = sentiment_data[k].index
              /\ signals[k].signal \in {0, 1}
              /\ signals[k].signal = 1 <=> sentiment_data[k].sentiment = "optimistic"
              /\ \A prices \in PriceFrames(MaxPriceRows) :
                    generate_signals(prices, sentiment_data)[k] = signals[k]
              /\ \A j \in 1..Len(signals), label \in AllLabels :
                    j # k =>
                        generate_signals(price_data,
                            [sentiment_data EXCEPT ![j].sentiment = label])[k]
                        = signals[k]

C16_Witness ==
    /\ Generated
    /\ Len(signals) = 3
    /\ sentiment_data[1].sentiment = "neutral" /\ signals[1].signal = 0
    /\ sentiment_data[2].sentiment = "optimistic" /\ signals[2].signal = 1
    /\ sentiment_data[3].sentiment = "pessimistic" /\ signals[3].signal = 0

Measured == call.op = "risk_metrics"

\* C17: on an empty return series calculate_sharpe_ratio,
\* calculate_sortino_ratio and calculate_max_drawdown each return 0.0.
C17_EmptySeriesIsNeutral ==
    (Measured /\ Len(call.arg) = 0) =>
        /\ call.sharpe_ratio = Metric(Num(Zero))
        /\ call.sortino_ratio = Metric(Num(Zero))
        /\ call.max_drawdown = Num(Zero)

C17_Witness ==
    /\ Measured
    /\ call.from_prices
    /\ Len(call.prices) = 0
    /\ Len(call.arg) = 0
    /\ call.sharpe_ratio.kind = "num"

\* a non-empty series of finite returns that are all equal: the excess
\* returns have no deviation
ZeroDeviation(returns) ==
    /\ Len(returns) >= 1
    /\ \A k \in 1..Len(returns) : IsFinite(returns[k]) /\ returns[k] = returns[1]

\* C18: for every non-empty return series whose excess returns have zero
\* standard deviation (a constant series, a single element),
\* calculate_sharpe_ratio and calculate_sortino_ratio return a defined
\* finite value: neither nan nor an infinity.
C18_ZeroDeviationIsNeutral ==
    (Measured /\ ZeroDeviation(call.arg)) =>
        /\ call.sharpe_ratio.kind = "num"
        /\ call.sortino_ratio.kind = "num"

\* a non-empty series of positive values
PositiveSeries(prices) ==
    Len(prices) >= 1 /\ \A k \in 1..Len(prices) : RLt(Zero, prices[k])

\* the curve never falls below an earlier value
NonDecreasing(curve) ==
    \A i, j \in 1..Len(curve) : i < j => ~FLt(curve[j], curve[i])

\* C19: for every non-empty series of positive values,
\* calculate_max_drawdown of its period returns lies in [0, 1] and is 0
\* exactly when the cumulative-return curve is non-decreasing.
C19_MaxDrawdownRange ==
    (Measured /\ call.from_prices /\ PositiveSeries(call.prices)) =>
        /\ IsFinite(call.max_drawdown)
        /\ RLe(Zero, call.max_drawdown.v)
        /\ RLe(call.max_drawdown.v, R(1))
        /\ call.max_drawdown.v = Zero
              <=> NonDecreasing(calculate_cumulative_returns(call.arg))

C19_Witness ==
    /\ Measured
    /\ call.from_prices
    /\ call.prices = <<R(100), R(200), R(50)>>
    /\ call.max_drawdown = Num(<<3, 4>>)

(***************************************************************************)
(* Claims about the metrics of a run (SpecRun)                             *)
(***************************************************************************)
SnapshotTotals ==
    [k \in 1..Len(portfolio.portfolio_values) |-> portfolio.portfolio_values[k].total]

\* C20: in every completed run, in both capital modes, no period return is
\* computed by dividing by a snapshot total of 0 and every period return
\* is finite, so the reported max_drawdown is finite, and so is the
\* sharpe_ratio wherever the returns have a deviation (total_return is a
\* finite number by construction).
C20_RunReturnsFinite ==
    pc = "done" =>
        LET returns == calculate_returns(SnapshotTotals)
        IN  /\ \A k \in 2..Len(SnapshotTotals) : SnapshotTotals[k - 1] # Zero
            /\ \A k \in 1..Len(returns) : IsFinite(returns[k])
            /\ \A res \in results :
                  /\ IsFinite(res.performance_metrics.max_drawdown)
                  /\ (\E k \in 1..Len(returns) : returns[k] # returns[1])
                        => res.performance_metrics.sharpe_ratio.kind \in {"num", "ratio"}

(***************************************************************************)
(* Claims about the Portfolio class, continued (Spec)                      *)
(***************************************************************************)
\* C24: exit_position succeeds exactly when the ticker is held with at
\* least the requested quantity; on success it appends one trade of type
\* 'exit' with the quantity negated, decreases the holding by quantity and,
\* in constrained mode, increases current_capital by quantity * price; on
\* rejection it returns False and changes no state.
C24_ExitEffect ==
    [][(call'.op = "exit" /\ call'.n = call.n + 1)
       => LET ticker == call'.ticker
              quantity == call'.quantity
              held == /\ ticker \in DOMAIN portfolio.positions
                      /\ RLe(quantity, portfolio.positions[ticker])
          IN  /\ call'.ret <=> held
              /\ call'.ret =>
                   /\ portfolio'.trades =
                        portfolio.trades \o
                          <<[ticker |-> ticker, quantity |-> RNeg(quantity),
                             exit_price |-> call'.price, date |-> call'.date,
                             type |-> "exit",
                             metadata |-> UNION call'.metadata]>>
                   /\ \A t \in Tickers :
                        Held(portfolio'.positions, t) =
                          IF t = ticker
                          THEN RSub(Held(portfolio.positions, t), quantity)
                          ELSE Held(portfolio.positions, t)
                   /\ Constrained =>
                        portfolio'.current_capital =
                          RAdd(portfolio.current_capital,
                               RMul(quantity, call'.price))
                   /\ portfolio'.portfolio_values = portfolio.portfolio_values
              /\ ~call'.ret => portfolio' = portfolio]_vars

\* the whole holding of two shares was sold at a higher price
C24_Witness ==
    /\ Constrained
    /\ call.op = "exit" /\ call.ret
    /\ call.quantity = R(2)
    /\ Len(portfolio.trades) = 2
    /\ portfolio.trades[2].quantity = R(-2)
    /\ call.ticker \notin DOMAIN portfolio.positions
    /\ portfolio.current_capital = R(250)

\* C25: after any sequence of enter_position and exit_position calls the
\* positions map contains no ticker whose quantity is zero.
C25_NoZeroPosition ==
    \A t \in DOMAIN portfolio.positions : portfolio.positions[t] # Zero

\* the sum of quantity * price over the first k trades of one type
RECURSIVE TradedValue(_, _, _)
TradedValue(trades, type, k) ==
    IF k = 0 THEN Zero
    ELSE RAdd(TradedValue(trades, type, k - 1),
              IF trades[k].type # type THEN Zero
              ELSE IF type = "entry"
                   THEN RMul(trades[k].quantity, trades[k].entry_price)
                   ELSE RMul(RAbs(trades[k].quantity), trades[k].exit_price))

\* the sum of the signed quantities of a ticker's first k trades
RECURSIVE NetQuantity(_, _, _)
NetQuantity(trades, ticker, k) ==
    IF k = 0 THEN Zero
    ELSE RAdd(NetQuantity(trades, ticker, k - 1),
              IF trades[k].ticker = ticker THEN trades[k].quantity ELSE Zero)

\* C28: in constrained mode, after any sequence of enter_position,
\* exit_position and update_portfolio_value calls, current_capital equals
\* initial_capital minus the cost of the entry trades plus the proceeds of
\* the exit trades, and the quantity held of each ticker (0 if absent)
\* equals the sum of the signed quantities of that ticker's trades.
C28_TradeLogExplainsState ==
    Constrained =>
        LET n == Len(portfolio.trades)
        IN  /\ portfolio.current_capital =
                 RAdd(RSub(portfolio.initial_capital,
                           TradedValue(portfolio.trades, "entry", n)),
                      TradedValue(portfolio.trades, "exit", n))
            /\ \A t \in Tickers :
                 Held(portfolio.positions, t) = NetQuantity(portfolio.trades, t, n)

\* an entry, a partial exit at another price and a snapshot
C28_Witness ==
    /\ Constrained
    /\ call.op = "update"
    /\ Len(portfolio.trades) = 2
    /\ portfolio.trades[1].type = "entry" /\ portfolio.trades[1].quantity = R(2)
    /\ portfolio.trades[2].type = "exit" /\ portfolio.trades[2].quantity = R(-1)
    /\ portfolio.trades[1].entry_price # portfolio.trades[2].exit_price
    /\ portfolio.portfolio_values # <<>>

(***************************************************************************)
(* Claims about the report and the snapshots of a run (SpecRun)            *)
(***************************************************************************)
\* C22: the report returned by run contains, in constrained mode as well
\* as in unlimited mode, a trade count equal to the number of trades in
\* the portfolio's trade log.
C22_ReportCountsTrades ==
    pc = "done" =>
        \A res \in results :
            /\ "number_of_trades" \in DOMAIN res.performance_metrics
            /\ res.performance_metrics.number_of_trades = Len(portfolio.trades)

\* the dates of the first k signal rows that are in the price series
RECURSIVE PricedSignalDates(_)
PricedSignalDates(k) ==
    IF k = 0 THEN <<>>
    ELSE LET date == to_date(signals[k].index)
         IN  IF date \in DOMAIN price_data
             THEN Append(PricedSignalDates(k - 1), date)
             ELSE PricedSignalDates(k - 1)

SnapshotDates ==
    [k \in 1..Len(portfolio.portfolio_values) |-> portfolio.portfolio_values[k].date]

\* C26: a completed run has appended exactly one snapshot for each signal
\* row whose date is present in the price series, in loop order, and no
\* snapshot for any other date: trading days without a signal get none.
C26_SnapshotPerPricedSignal ==
    pc = "done" => SnapshotDates = PricedSignalDates(Len(signals))

\* three signals, the buy on an unpriced date skipped, and a trading day
\* without a signal
C26_Witness ==
    /\ pc = "done"
    /\ Len(signals) = 3
    /\ Len(portfolio.portfolio_values) = 2
    /\ signals[1].signal = 0
    /\ \E d \in DOMAIN price_data :
          \A k \in 1..Len(signals) : to_date(signals[k].index) # d

\* the loop has just handled a buy signal on a priced date
Bought == call.op = "buy"

\* C29: in a constrained run enter_position is never rejected: every buy
\* signal on a priced date appends exactly one entry trade, of the
\* quantity the engine derived, whose cost is at most the cash available
\* before the order (the cash the strategy was given), and of quantity 0
\* once the cash is 0.
C29_EntryNeverRejected ==
    (Bought /\ Constrained) =>
        /\ call.ret
        /\ RLe(RMul(call.quantity, call.price), strategy.current_capital)
        /\ portfolio.trades # <<>>
        /\ LET last == portfolio.trades[Len(portfolio.trades)]
           IN  /\ last.type = "entry"
               /\ last.date = call.date
               /\ last.quantity = call.quantity
        /\ strategy.current_capital = Zero => call.quantity = Zero

\* the sum of quantity * (close - entry_price) over the entry trades made
\* up to a date
RECURSIVE UnrealisedGain(_, _, _, _)
UnrealisedGain(trades, k, date, close) ==
    IF k = 0 THEN Zero
    ELSE RAdd(UnrealisedGain(trades, k - 1, date, close),
              IF trades[k].type = "entry" /\ trades[k].date <= date
              THEN RMul(trades[k].quantity, RSub(close, trades[k].entry_price))
              ELSE Zero)

\* C30: in a constrained run an entry is value-neutral at its execution
\* price: every snapshot's total equals the portfolio's initial_capital
\* plus the sum, over the entry trades recorded so far, of
\* quantity * (that date's close - the trade's entry price).
C30_EntryIsValueNeutral ==
    (pc \in {"loop", "done"} /\ Constrained) =>
        \A k \in 1..Len(portfolio.portfolio_values) :
            LET snapshot == portfolio.portfolio_values[k]
            IN  snapshot.total =
                  RAdd(portfolio.initial_capital,
                       UnrealisedGain(portfolio.trades, Len(portfolio.trades),
                                      snapshot.date, price_data[snapshot.date]))

\* two entries at different closes, and a last snapshot off the starting
\* capital
C30_Witness ==
    /\ pc = "done"
    /\ Constrained
    /\ Len(portfolio.trades) = 2
    /\ portfolio.trades[1].entry_price # portfolio.trades[2].entry_price
    /\ Len(portfolio.portfolio_values) = 3
    /\ portfolio.portfolio_values[3].total # portfolio.initial_capital
    /\ portfolio.portfolio_values[2].total # portfolio.portfolio_values[3].total

(***************************************************************************)
(* Claims about repeated runs (SpecAgain)                                  *)
(***************************************************************************)
\* C21: backtest runs share no mutable state: every call of run starts
\* from an empty portfolio (no trades, no positions, no snapshots, cash
\* equal to the initial capital), and a call of run on an engine that has
\* already returned a report for the same inputs returns an equal report.
C21_RunsShareNoState ==
    [][/\ call'.op = "start" =>
            /\ portfolio.trades = <<>>
            /\ portfolio.positions = <<>>
            /\ portfolio.portfolio_values = <<>>
            /\ portfolio.current_capital = portfolio.initial_capital
       /\ (pc = "loop" /\ pc' = "done" /\ results # None) => results' = results]_vars

(***************************************************************************)
(* Claims about the API (SpecApi)                                          *)
(***************************************************************************)
\* C23: the starting capital configured for a backtest (the request's
\* initial_capital, handed to the strategy as initial_capital) is the
\* starting cash of the portfolio used by the run and the base of
\* total_return in constrained mode.
C23_ConfiguredCapitalIsUsed ==
    /\ portfolio.initial_capital = strategy.initial_capital
    /\ pc = "constructed" => portfolio.current_capital = strategy.initial_capital
    /\ (pc = "done" /\ Constrained) =>
          \A res \in results :
              res.performance_metrics.total_return =
                  RSub(RDiv(FinalTotal, strategy.initial_capital), R(1))

(***************************************************************************)
(* Claims about the bounded gather (SpecTasksFair)                         *)
(***************************************************************************)
Running == {i \in 1..call.n : call.at[i] = "running"}

\* coroutine i was started
Ran(i) == i \in 1..call.n => call.at[i] \in {"running", "done", "failed"}

SomeFailed == \E i \in 1..call.n : call.at[i] = "failed"

\* C27: at no moment are more than the configured limit of the submitted
\* coroutines executing, the results are returned in the order of the
\* submitted tasks, and every submitted coroutine eventually runs when
\* none of them fails.
C27_BoundedOrderedGather ==
    /\ [](Cardinality(Running) <= call.limit)
    /\ [](pc = "returned" =>
            /\ Len(call.ret) = call.n
            /\ \A i \in 1..call.n : call.ret[i].task = i)
    /\ \A i \in 1..MaxTasks : <>(Ran(i) \/ SomeFailed)


====
